---- MODULE Spec2Model ----
(***************************************************************************)
(* WebR playground: the execution-and-result-formatting pipeline of        *)
(* WebRService (webr-service.js), modelled as a state machine.             *)
(*                                                                         *)
(* Text is a sequence of UTF-16 code units.  An ASCII unit is written as   *)
(* itself ("a", "\n"); any other unit is written "uXXXX", its code.        *)
(***************************************************************************)
EXTENDS Integers, Sequences, FiniteSets, TLC

\* ------------------------------------------------------------------ bounds
\* most items in one captured output (formatOutput inputs)
MaxItems == 2
\* largest configured maxOutputLength tried by the formatting specification
MaxCfgLen == 2
\* most fragments in one raw error message (formatError inputs)
MaxFrags == 2
\* executeCode calls that may be suspended in the adapter at once
MaxInFlight == 2
\* last instant of performance.now(), in clock ticks
MaxClock == 2
\* clock ticks per millisecond (performance.now() is fractional)
TicksPerMs == 2
\* runCode() invocations that may be suspended at their await at once
MaxRuns == 2

\* ------------------------------------------------------- program constants
\* config.maxOutputLength default
DefaultMaxOutputLength == 10000

\* -------------------------------------------------------------------- text
\* executeCode's not-ready error text ('WebR has not been initialized')
NotReadyMessage ==
    <<"W", "e", "b", "R", "u304C", "u521D", "u671F", "u5316", "u3055",
      "u308C", "u3066", "u3044", "u307E", "u305B", "u3093">>

\* runCode's warning while a run is in flight ('code is already running')
AlreadyRunningMessage ==
    <<"u30B3", "u30FC", "u30C9", "u306F", "u65E2", "u306B", "u5B9F",
      "u884C", "u4E2D", "u3067", "u3059">>

\* runCode's warning for an empty input ('please enter code')
EnterCodeMessage ==
    <<"u30B3", "u30FC", "u30C9", "u3092", "u5165", "u529B", "u3057",
      "u3066", "u304F", "u3060", "u3055", "u3044">>

\* the empty-code result's error text ('no code has been entered')
NoCodeMessage ==
    <<"u30B3", "u30FC", "u30C9", "u304C", "u5165", "u529B", "u3055",
      "u308C", "u3066", "u3044", "u307E", "u305B", "u3093">>

\* formatOutput's stderr prefix ('error: ')
StderrLabel ==
    <<"u30A8", "u30E9", "u30FC", ":", " ">>

\* formatOutput's warning prefix ('warning: ')
WarningLabel ==
    <<"u8B66", "u544A", ":", " ">>

\* formatOutput's message prefix ('message: ')
MessageLabel ==
    <<"u30E1", "u30C3", "u30BB", "u30FC", "u30B8", ":", " ">>

\* truncateOutput's suffix ('... (omitted because the output is too long)')
OmissionSuffix ==
    <<"\n", "\n", ".", ".", ".", " ", "(", "u51FA", "u529B", "u304C",
      "u9577", "u3059", "u304E", "u308B", "u305F", "u3081", "u7701",
      "u7565", "u3055", "u308C", "u307E", "u3057", "u305F", ")">>

\* formatError's fallback ('an error occurred while running the code')
FallbackErrorMessage ==
    <<"u30B3", "u30FC", "u30C9", "u306E", "u5B9F", "u884C", "u4E2D",
      "u306B", "u30A8", "u30E9", "u30FC", "u304C", "u767A", "u751F",
      "u3057", "u307E", "u3057", "u305F">>

\* item.type values
TypeStdout ==
    <<"s", "t", "d", "o", "u", "t">>

\* (see above)
TypeStderr ==
    <<"s", "t", "d", "e", "r", "r">>

\* (see above)
TypeWarning ==
    <<"w", "a", "r", "n", "i", "n", "g">>

\* (see above)
TypeMessage ==
    <<"m", "e", "s", "s", "a", "g", "e">>

\* a type formatOutput has no branch for
TypeOther ==
    <<"p", "l", "o", "t">>

\* JSON.stringify(item, null, 2) pieces
JsonTypeKey ==
    <<"\"", "t", "y", "p", "e", "\"", ":", " ">>

\* (see above)
JsonDataKey ==
    <<"\"", "d", "a", "t", "a", "\"", ":", " ">>

\* String(null)
NullText ==
    <<"n", "u", "l", "l">>

\* (see above)
EmptyArrayText ==
    <<"[", "]">>

\* (see above)
CommaSpace ==
    <<",", " ">>

\* the TypeError of this.shelter.captureR with this.shelter null
ShelterNullMessage ==
    <<"t", "h", "i", "s", ".", "s", "h", "e", "l", "t", "e", "r", " ", "i",
      "s", " ", "n", "u", "l", "l">>

\* the TypeError of result.output with result undefined
ResultUndefinedMessage ==
    <<"r", "e", "s", "u", "l", "t", " ", "i", "s", " ", "u", "n", "d", "e",
      "f", "i", "n", "e", "d">>

errorTranslations == <<
  [pre |->
      <<"o", "b", "j", "e", "c", "t", " ">>,
   wild |-> TRUE,
   post |->
      <<" ", "n", "o", "t", " ", "f", "o", "u", "n", "d">>,
   translation |->
      <<"u30AA", "u30D6", "u30B8", "u30A7", "u30AF", "u30C8", "u304C",
        "u898B", "u3064", "u304B", "u308A", "u307E", "u305B", "u3093">>],
  [pre |->
      <<"u", "n", "e", "x", "p", "e", "c", "t", "e", "d">>,
   wild |-> FALSE,
   post |->
      <<>>,
   translation |->
      <<"u4E88", "u671F", "u3057", "u306A", "u3044">>],
  [pre |->
      <<"E", "r", "r", "o", "r", " ", "i", "n">>,
   wild |-> FALSE,
   post |->
      <<>>,
   translation |->
      <<"u30A8", "u30E9", "u30FC", ":">>],
  [pre |->
      <<"c", "o", "u", "l", "d", " ", "n", "o", "t", " ", "f", "i", "n",
        "d", " ", "f", "u", "n", "c", "t", "i", "o", "n">>,
   wild |-> FALSE,
   post |->
      <<>>,
   translation |->
      <<"u95A2", "u6570", "u304C", "u898B", "u3064", "u304B", "u308A",
        "u307E", "u305B", "u3093">>],
  [pre |->
      <<"a", "r", "g", "u", "m", "e", "n", "t", " ", "i", "s", " ", "o",
        "f", " ", "l", "e", "n", "g", "t", "h", " ", "z", "e", "r", "o">>,
   wild |-> FALSE,
   post |->
      <<>>,
   translation |->
      <<"u5F15", "u6570", "u306E", "u9577", "u3055", "u304C", "u30BC",
        "u30ED", "u3067", "u3059">>],
  [pre |->
      <<"m", "i", "s", "s", "i", "n", "g", " ", "v", "a", "l", "u", "e">>,
   wild |-> FALSE,
   post |->
      <<>>,
   translation |->
      <<"u6B20", "u640D", "u5024">>],
  [pre |->
      <<"i", "n", "v", "a", "l", "i", "d">>,
   wild |-> FALSE,
   post |->
      <<>>,
   translation |->
      <<"u7121", "u52B9", "u306A">>],
  [pre |->
      <<"i", "n", "c", "o", "r", "r", "e", "c", "t", " ", "n", "u", "m",
        "b", "e", "r", " ", "o", "f", " ", "d", "i", "m", "e", "n", "s",
        "i", "o", "n", "s">>,
   wild |-> FALSE,
   post |->
      <<>>,
   translation |->
      <<"u6B21", "u5143", "u6570", "u304C", "u6B63", "u3057", "u304F",
        "u3042", "u308A", "u307E", "u305B", "u3093">>]
  >>
RECURSIVE Concat(_)
\* the concatenation of a sequence of texts
Concat(ts) ==
    IF ts = <<>> THEN <<>> ELSE Head(ts) \o Concat(Tail(ts))

RECURSIVE Join(_, _)
\* Array.prototype.join: the texts of ts with sep between neighbours
Join(ts, sep) ==
    IF ts = <<>> THEN <<>>
    ELSE IF Len(ts) = 1 THEN ts[1]
    ELSE ts[1] \o sep \o Join(Tail(ts), sep)

\* String.prototype.substring(0, n) for n >= 0
Substring0(t, n) ==
    SubSeq(t, 1, IF n < Len(t) THEN n ELSE Len(t))

\* the white space and line terminators String.prototype.trim strips
WhiteSpace == {" ", "\t", "\n", "\r", "\f", "u000B", "u00A0", "u2028", "u2029", "uFEFF"}

RECURSIVE TrimStart(_)
TrimStart(t) ==
    IF t # <<>> /\ Head(t) \in WhiteSpace THEN TrimStart(Tail(t)) ELSE t

RECURSIVE TrimEnd(_)
TrimEnd(t) ==
    IF t # <<>> /\ t[Len(t)] \in WhiteSpace
    THEN TrimEnd(SubSeq(t, 1, Len(t) - 1)) ELSE t

\* String.prototype.trim
Trim(t) == TrimEnd(TrimStart(t))

DigitText == <<"0", "1", "2", "3", "4", "5", "6", "7", "8", "9">>

RECURSIVE NatToText(_)
\* String(n) of a natural number
NatToText(n) ==
    IF n < 10 THEN <<DigitText[n + 1]>>
    ELSE NatToText(n \div 10) \o <<DigitText[(n % 10) + 1]>>

\* ------------------------------------------------------------ formatOutput
(* A captured item is a record                                              *)
(*   [kind, type, hasData, data, elems]                                     *)
(* kind "string": a JavaScript string, its text in data;                    *)
(* kind "typed":  an object {type, data} (data absent when ~hasData);       *)
(* kind "numbers" / "strings": an array of numbers / of strings, in elems;  *)
(* kind "null":   null.                                                     *)
StringItem(t) ==
    [kind |-> "string", type |-> <<>>, hasData |-> TRUE, data |-> t,
     elems |-> <<>>]

TypedItem(ty, t) ==
    [kind |-> "typed", type |-> ty, hasData |-> TRUE, data |-> t,
     elems |-> <<>>]

TypedItemNoData(ty) ==
    [kind |-> "typed", type |-> ty, hasData |-> FALSE, data |-> <<>>,
     elems |-> <<>>]

ArrayItem(k, es) ==
    [kind |-> k, type |-> <<>>, hasData |-> FALSE, data |-> <<>>,
     elems |-> es]

NullItem ==
    [kind |-> "null", type |-> <<>>, hasData |-> FALSE, data |-> <<>>,
     elems |-> <<>>]

(* A captured output is a record [present, items]: result.output is       *)
(* undefined when ~present, else the array of the items.                   *)
NoOutput == [present |-> FALSE, items |-> <<>>]
OutputOf(items) == [present |-> TRUE, items |-> items]

\* the truthiness of a string-valued property that may be absent
Truthy(has, t) == has /\ Len(t) > 0

\* JSON.stringify's escape of one code unit inside a string
JsonEscapeUnit(c) ==
    CASE c = "\"" -> <<"\\", "\"">>
      [] c = "\\" -> <<"\\", "\\">>
      [] c = "\n" -> <<"\\", "n">>
      [] c = "\r" -> <<"\\", "r">>
      [] c = "\t" -> <<"\\", "t">>
      [] c = "\f" -> <<"\\", "f">>
      [] OTHER -> <<c>>

\* JSON.stringify of a string
JsonString(t) ==
    <<"\"">> \o Concat([i \in 1..Len(t) |-> JsonEscapeUnit(t[i])]) \o <<"\"">>

\* JSON.stringify(item, null, 2) of an object {type, data}
JsonStringify(item) ==
    <<"{", "\n", " ", " ">> \o JsonTypeKey \o JsonString(item.type)
    \o (IF item.hasData
        THEN <<",", "\n", " ", " ">> \o JsonDataKey \o JsonString(item.data)
        ELSE <<>>)
    \o <<"\n", "}">>

\* formatArray: '[]', '[1, 2]' for numbers, the lines of a string array
formatArray(item) ==
    IF Len(item.elems) = 0 THEN EmptyArrayText
    ELSE IF item.kind = "numbers"
    THEN <<"[">>
         \o Join([i \in 1..Len(item.elems) |-> NatToText(item.elems[i])],
                 CommaSpace)
         \o <<"]">>
    ELSE Join(item.elems, <<"\n">>)

\* the callback of output.map in formatOutput: the text one item renders as
FormatItem(item) ==
    IF item.kind = "string" THEN item.data
    ELSE IF item.kind = "null" THEN NullText
    ELSE IF item.type = TypeStdout /\ Truthy(item.hasData, item.data)
    THEN item.data
    ELSE IF item.type = TypeStderr /\ Truthy(item.hasData, item.data)
    THEN StderrLabel \o item.data
    ELSE IF item.type = TypeWarning /\ Truthy(item.hasData, item.data)
    THEN WarningLabel \o item.data
    ELSE IF item.type = TypeMessage /\ Truthy(item.hasData, item.data)
    THEN MessageLabel \o item.data
    ELSE IF item.kind \in {"numbers", "strings"} THEN formatArray(item)
    ELSE JsonStringify(item)

\* formatOutput: '' for a missing or empty output, else the items' texts
\* joined by newlines
formatOutput(output) ==
    IF ~output.present \/ Len(output.items) = 0 THEN <<>>
    ELSE Join([i \in 1..Len(output.items) |-> FormatItem(output.items[i])],
              <<"\n">>)

\* ---------------------------------------------------------- truncateOutput
\* the comparison off by one: an output of exactly the maximum is cut too
truncateOutput_Strict(output, maxOutputLength) ==
    IF Len(output) < maxOutputLength THEN output
    ELSE Substring0(output, maxOutputLength) \o OmissionSuffix

truncateOutput(output, maxOutputLength) ==
    IF Len(output) <= maxOutputLength THEN output
    ELSE Substring0(output, maxOutputLength) \o OmissionSuffix

\* ------------------------------------------------------------- formatError
\* the ASCII letters, upper case to lower case
FoldTable ==
    [c \in {"A", "B", "C", "D", "E", "F", "G", "H", "I", "J", "K", "L", "M",
            "N", "O", "P", "Q", "R", "S", "T", "U", "V", "W", "X", "Y", "Z"}
     |-> CASE c = "A" -> "a" [] c = "B" -> "b" [] c = "C" -> "c"
           [] c = "D" -> "d" [] c = "E" -> "e" [] c = "F" -> "f"
           [] c = "G" -> "g" [] c = "H" -> "h" [] c = "I" -> "i"
           [] c = "J" -> "j" [] c = "K" -> "k" [] c = "L" -> "l"
           [] c = "M" -> "m" [] c = "N" -> "n" [] c = "O" -> "o"
           [] c = "P" -> "p" [] c = "Q" -> "q" [] c = "R" -> "r"
           [] c = "S" -> "s" [] c = "T" -> "t" [] c = "U" -> "u"
           [] c = "V" -> "v" [] c = "W" -> "w" [] c = "X" -> "x"
           [] c = "Y" -> "y" [] c = "Z" -> "z"]

\* the canonical form of a code unit under the regular expression's i flag
Fold(c) == IF c \in DOMAIN FoldTable THEN FoldTable[c] ELSE c

\* the units the regular expression's . does not match
LineTerminators == {"\n", "\r", "u2028", "u2029"}

\* the literal lit matches msg at position i, ignoring case
LiteralAt(lit, msg, i) ==
    /\ i >= 1
    /\ i + Len(lit) - 1 <= Len(msg)
    /\ \A k \in 1..Len(lit) : Fold(msg[i + k - 1]) = Fold(lit[k])

(* The table's patterns are literals, but for 'object .* not found': a     *)
(* pattern is [pre, wild, post], pre followed (when wild) by .* and post.  *)
(* The ends of the matches of pattern p that start at position i of msg.   *)
MatchEnds(p, msg, i) ==
    IF ~LiteralAt(p.pre, msg, i) THEN {}
    ELSE IF ~p.wild THEN {i + Len(p.pre) - 1}
    ELSE {j + Len(p.post) - 1 : j \in
            {j \in (i + Len(p.pre))..Len(msg) :
                /\ LiteralAt(p.post, msg, j)
                /\ \A k \in (i + Len(p.pre))..(j - 1) :
                       msg[k] \notin LineTerminators}}

SetMax(S) == CHOOSE x \in S : \A y \in S : y <= x
SetMin(S) == CHOOSE x \in S : \A y \in S : x <= y

\* regex.test(message)
RegexTest(p, msg) ==
    \E i \in 1..Len(msg) : MatchEnds(p, msg, i) # {}

\* the span the regular expression matches: the leftmost start, and from it
\* the longest match (.* is greedy)
RegexSearch(p, msg) ==
    LET start == SetMin({i \in 1..Len(msg) : MatchEnds(p, msg, i) # {}})
    IN  [start |-> start, end |-> SetMax(MatchEnds(p, msg, start))]

\* a replacement of the whole message by the translation
RegexReplace_Whole(p, msg) ==
    IF \E i \in 1..Len(msg) : MatchEnds(p, msg, i) # {}
    THEN p.translation ELSE msg

\* message.replace(regex, translation): the first match replaced (no g flag)
RegexReplace(p, msg) ==
    IF ~RegexTest(p, msg) THEN msg
    ELSE LET m == RegexSearch(p, msg)
         IN  SubSeq(msg, 1, m.start - 1) \o p.translation
             \o SubSeq(msg, m.end + 1, Len(msg))

\* one iteration of formatError's loop over the table
\* the replacement computed and dropped: message.replace(...) unassigned
ApplyEntry_Discarded(k, msg) == msg

ApplyEntry(k, msg) ==
    IF RegexTest(errorTranslations[k], msg)
    THEN RegexReplace(errorTranslations[k], msg)
    ELSE msg

RECURSIVE TranslateFrom(_, _)
\* the loop from entry k on: every entry is tried, in table order
TranslateFrom(k, msg) ==
    IF k > Len(errorTranslations) THEN msg
    ELSE TranslateFrom(k + 1, ApplyEntry(k, msg))

(* A thrown value is a record [kind, hasMessage, message]: kind "nullish"  *)
(* is null or undefined, kind "value" anything else (an Error, a string,   *)
(* an object), with its message property, if it has one.                   *)
Nullish == [kind |-> "nullish", hasMessage |-> FALSE, message |-> <<>>]
ErrorWith(msg) == [kind |-> "value", hasMessage |-> TRUE, message |-> msg]
ErrorNoMessage == [kind |-> "value", hasMessage |-> FALSE, message |-> <<>>]

\* formatError raises a TypeError itself: error.message of null / undefined
formatErrorRaises(error) == error.kind = "nullish"

\* formatError's return value, for an error it does not raise on
formatError(error) ==
    IF Truthy(error.hasMessage, error.message)
    THEN TranslateFrom(1, error.message)
    ELSE FallbackErrorMessage

\* ------------------------------------------------------------------- state
VARIABLES
    webR,              \* this.webR: "null" or "engine"
    shelter,           \* this.shelter: "null" or "shelter"
    ready,             \* this.ready
    config,            \* this.config
    currentExecution,  \* this.currentExecution: 0 (null) or an AbortController
    initPc,            \* where the initialize() call in flight is suspended
    initOutcome,       \* how the last initialize() ended
    calls,             \* the executeCode calls suspended at await captureR
    aborted,           \* the AbortControllers whose abort() has run
    clock,             \* performance.now(), in ticks
    last,              \* how the executeCode call that settled last ended
    cancelled,         \* what the last cancelExecution() found and did
    destroyed,         \* how the destroy() of the last step went
    fmt,               \* the formatting pipeline run on its own
    fe,                \* formatError run on its own, one loop iteration a step
    tm,                \* one executeCode call followed statement by statement
    ui                 \* the UIController: isRunning, the run button, runCode

serviceVars == <<webR, shelter, ready, config, currentExecution, initPc,
                 initOutcome, calls, aborted, clock, last, cancelled,
                 destroyed>>

\* the variables of the runs made beside the service's own
sideVars == <<fmt, fe, tm, ui>>

vars == <<webR, shelter, ready, config, currentExecution, initPc,
          initOutcome, calls, aborted, clock, last, cancelled, destroyed,
          fmt, fe, tm, ui>>

\* the constructor: the fields of a new WebRService, maxOutputLength as given
ServiceInit(maxLen) ==
    /\ webR = "null"
    /\ shelter = "null"
    /\ ready = FALSE
    /\ config = [maxOutputLength |-> maxLen, plotWidth |-> 800,
                 plotHeight |-> 600]
    /\ currentExecution = 0

FmtIdle == [pc |-> "idle", output |-> NoOutput, text |-> <<>>, result |-> <<>>]

FeIdle ==
    [pc |-> "idle", error |-> Nullish, message |-> <<>>, idx |-> 0,
     applied |-> {}, before |-> <<>>, trail |-> <<>>, result |-> <<>>]

\* no executeCode call is being followed statement by statement
TmIdle ==
    [pc |-> "idle", path |-> "none", startTime |-> 0, settledAt |-> 0,
     stampAt |-> 0, elapsed |-> 0, formatBeganAt |-> 0, formatDoneAt |-> 0,
     executionTime |-> 0, order |-> <<>>]

\* no runCode() has been entered in the last step
NoRun == [kind |-> "none"]

\* new UIController(): no service attached, not running, no runCode() in
\* flight; the run button is as the page declares it
UiNew(buttonDisabled) ==
    [app |-> "constructed", webRService |-> FALSE, isRunning |-> FALSE,
     runBtnDisabled |-> buttonDisabled, listening |-> FALSE,
     shortcuts |-> FALSE, codeInput |-> <<>>,
     runs |-> [r \in 1..MaxRuns |-> [pc |-> "free"]], run |-> NoRun,
     status |-> [type |-> "info", message |-> "page"],
     progressInterval |-> FALSE, messageIndex |-> 0]

UiIdle == UiNew(TRUE)

\* ------------------------------------- the formatting pipeline on its own
\* texts a captured item carries
ItemTexts == {<<>>, <<"a">>}

ItemTypes == {TypeStdout, TypeStderr, TypeWarning, TypeMessage, TypeOther}

\* the captured items tried
Items ==
    {StringItem(<<>>), StringItem(<<"a", "b">>), NullItem}
    \cup {TypedItem(ty, t) : ty \in ItemTypes, t \in ItemTexts}
    \cup {TypedItemNoData(ty) : ty \in ItemTypes}
    \cup {ArrayItem("numbers", <<>>), ArrayItem("numbers", <<7, 12>>),
          ArrayItem("strings", <<<<"a">>, <<"b">>>>)}

\* the captured outputs tried: no output at all, or up to MaxItems items
Outputs ==
    {NoOutput}
    \cup {OutputOf(items) : items \in UNION {[1..n -> Items] : n \in 0..MaxItems}}

FormatInit ==
    /\ \E maxLen \in 0..MaxCfgLen : ServiceInit(maxLen)
    /\ initPc = "idle"
    /\ initOutcome = "none"
    /\ calls = [s \in 1..MaxInFlight |-> [active |-> FALSE]]
    /\ aborted = {}
    /\ clock = 0
    /\ last = [kind |-> "none"]
    /\ cancelled = [seen |-> FALSE]
    /\ destroyed = [seen |-> FALSE]
    /\ tm = TmIdle
    /\ ui = UiIdle
    /\ fe = FeIdle
    /\ \E o \in Outputs : fmt = [FmtIdle EXCEPT !.pc = "captured", !.output = o]

\* const output = this.formatOutput(result.output)
FormatOutputStep ==
    /\ fmt.pc = "captured"
    /\ fmt' = [fmt EXCEPT !.pc = "formatted", !.text = formatOutput(fmt.output)]
    /\ UNCHANGED <<serviceVars, fe, tm, ui>>

\* output: this.truncateOutput(output)
TruncateOutputStep ==
    /\ fmt.pc = "formatted"
    /\ fmt' = [fmt EXCEPT !.pc = "done",
                          !.result = truncateOutput(fmt.text,
                                                    config.maxOutputLength)]
    /\ UNCHANGED <<serviceVars, fe, tm, ui>>

FormatNext == FormatOutputStep \/ TruncateOutputStep

SpecFormat == FormatInit /\ [][FormatNext]_vars

\* --------------------------------------------------- formatError on its own
\* the pieces raw error messages are built from
Fragments ==
    {<<"E", "r", "r", "o", "r", " ", "i", "n", " ", "f", ":", " ">>,
     errorTranslations[1].pre \o <<"'", "x", "'">> \o errorTranslations[1].post,
     <<"O", "b", "j", "e", "c", "t", " ">> \o errorTranslations[7].pre
        \o <<" ", "N", "O", "T", " ", "F", "O", "U", "N", "D">>,
     errorTranslations[2].pre,
     errorTranslations[4].pre,
     errorTranslations[5].pre,
     errorTranslations[6].pre,
     errorTranslations[7].pre,
     errorTranslations[8].pre,
     errorTranslations[1].pre,
     errorTranslations[1].post,
     <<"\n">>,
     <<" ", "x", " ">>}

\* the raw messages tried: up to MaxFrags fragments, one after another
Messages ==
    UNION {{Concat(fs) : fs \in [1..n -> Fragments]} : n \in 0..MaxFrags}

\* the thrown values tried
Errors == {Nullish, ErrorNoMessage} \cup {ErrorWith(m) : m \in Messages}

ErrorInit ==
    /\ ServiceInit(DefaultMaxOutputLength)
    /\ initPc = "idle"
    /\ initOutcome = "none"
    /\ calls = [s \in 1..MaxInFlight |-> [active |-> FALSE]]
    /\ aborted = {}
    /\ clock = 0
    /\ last = [kind |-> "none"]
    /\ cancelled = [seen |-> FALSE]
    /\ destroyed = [seen |-> FALSE]
    /\ tm = TmIdle
    /\ ui = UiIdle
    /\ fmt = FmtIdle
    /\ \E e \in Errors : fe = [FeIdle EXCEPT !.pc = "thrown", !.error = e]

\* formatError(error) up to its loop: error.message read and tested
FormatErrorEnter ==
    /\ fe.pc = "thrown"
    /\ fe' = IF formatErrorRaises(fe.error)
             THEN [fe EXCEPT !.pc = "raised"]
             ELSE IF Truthy(fe.error.hasMessage, fe.error.message)
             THEN [fe EXCEPT !.pc = "loop", !.message = fe.error.message,
                             !.idx = 1]
             ELSE [fe EXCEPT !.pc = "returned",
                             !.result = FallbackErrorMessage]
    /\ UNCHANGED <<serviceVars, fmt, tm, ui>>

\* one iteration of for (const [pattern, translation] of Object.entries(...))
FormatErrorIterate ==
    /\ fe.pc = "loop"
    /\ fe.idx <= Len(errorTranslations)
    /\ fe' = [fe EXCEPT !.message = ApplyEntry(fe.idx, fe.message),
                        !.before = fe.message,
                        !.trail = Append(fe.trail, fe.message),
                        !.applied =
                            IF RegexTest(errorTranslations[fe.idx], fe.message)
                            THEN fe.applied \cup {fe.idx} ELSE fe.applied,
                        !.idx = fe.idx + 1]
    /\ UNCHANGED <<serviceVars, fmt, tm, ui>>

\* a message no entry translated is given up for the generic text
FormatErrorReturn_GenericWhenUntranslated ==
    /\ fe.pc = "loop"
    /\ fe.idx > Len(errorTranslations)
    /\ fe' = [fe EXCEPT !.pc = "returned",
                        !.result = IF fe.applied = {}
                                   THEN FallbackErrorMessage ELSE fe.message]
    /\ UNCHANGED <<serviceVars, fmt, tm, ui>>

\* return message
FormatErrorReturn ==
    /\ fe.pc = "loop"
    /\ fe.idx > Len(errorTranslations)
    /\ fe' = [fe EXCEPT !.pc = "returned", !.result = fe.message]
    /\ UNCHANGED <<serviceVars, fmt, tm, ui>>

ErrorNext == FormatErrorEnter \/ FormatErrorIterate \/ FormatErrorReturn

SpecError == ErrorInit /\ [][ErrorNext]_vars

\* -------------------------------------------------------------- the service
(* The code passed to executeCode: a record [present, text]; ~present is a *)
(* missing argument (undefined or null).                                   *)
CodeOf(t) == [present |-> TRUE, text |-> t]
CodeAbsent == [present |-> FALSE, text |-> <<>>]

\* the codes tried: missing, empty, white space only, and one that is not
Codes ==
    {CodeAbsent, CodeOf(<<>>), CodeOf(<<" ", "\n">>),
     CodeOf(<<" ", "x", "\n">>)}

\* the check without trim(): only a missing or empty code is refused
IsBlank_NoTrim(code) ==
    ~code.present \/ Len(code.text) = 0

\* !code || !code.trim()
IsBlank(code) ==
    ~code.present \/ Len(code.text) = 0 \/ Len(Trim(code.text)) = 0

\* the two checks in the other order: the empty-code check first
ExecEntry_BlankFirst(isReady, code) ==
    IF IsBlank(code) THEN "blank" ELSE IF ~isReady THEN "notReady" ELSE "run"

\* executeCode's two checks before the timed part: which way the call goes
ExecEntry(isReady, code) ==
    IF ~isReady THEN "notReady" ELSE IF IsBlank(code) THEN "blank" ELSE "run"

\* the options object executeCode passes to shelter.captureR
captureOptions(cfg, controller) ==
    [withAutoprint |-> TRUE, captureStreams |-> TRUE,
     captureConditions |-> TRUE,
     captureGraphics |-> [width |-> cfg.plotWidth, height |-> cfg.plotHeight]]

\* the adapter call made with options opts can observe controller's abort()
AbortReaches(opts, controller) ==
    /\ controller # 0
    /\ "signal" \in DOMAIN opts
    /\ opts.signal = controller

\* Math.round of a duration of t ticks, in milliseconds
MathRoundMs(t) == (2 * t + TicksPerMs) \div (2 * TicksPerMs)

(* What captureR resolves with: a record [defined, output, hasImages,      *)
(* images]; ~defined is a result that is undefined, ~hasImages a result    *)
(* with no images property.                                                *)
RawResults ==
    {[defined |-> FALSE, output |-> NoOutput, hasImages |-> FALSE,
      images |-> <<>>],
     [defined |-> TRUE, output |-> NoOutput, hasImages |-> FALSE,
      images |-> <<>>],
     [defined |-> TRUE, output |-> OutputOf(<<TypedItem(TypeStdout, <<"a">>)>>),
      hasImages |-> TRUE, images |-> <<>>],
     [defined |-> TRUE,
      output |-> OutputOf(<<TypedItem(TypeStdout, <<"a">>),
                            StringItem(<<"a", "b">>)>>),
      hasImages |-> TRUE, images |-> <<"image">>]}

\* what captureR rejects with
ThrownValues ==
    {Nullish, ErrorNoMessage,
     ErrorWith(<<"E", "r", "r", "o", "r", " ", "i", "n", " ", "f", ":", " ">>
               \o errorTranslations[7].pre)}

\* the errors executeCode's catch block meets: what captureR rejects with,
\* and the TypeErrors raised inside the try block
CaughtErrors ==
    ThrownValues
    \cup {ErrorWith(ShelterNullMessage), ErrorWith(ResultUndefinedMessage)}

\* this.formatError(error), tabulated for the errors the catch block meets
formatErrorOf ==
    [error \in {e \in CaughtErrors : ~formatErrorRaises(e)}
     |-> formatError(error)]

NoCall == [active |-> FALSE]

ActiveSlots == {s \in 1..MaxInFlight : calls[s].active}

NoSettle == [kind |-> "none"]

NoCancel == [seen |-> FALSE]

\* no destroy() in the last step
NoDestroy == [seen |-> FALSE]

\* the service state cancelExecution may touch or must leave alone
ServiceState == <<webR, shelter, ready, config, currentExecution, aborted>>

\* the return value of the success path
SuccessResult(raw, cfg, elapsed) ==
    [success |-> TRUE,
     output |-> truncateOutput(formatOutput(raw.output), cfg.maxOutputLength),
     images |-> IF raw.hasImages THEN raw.images ELSE <<>>,
     executionTime |-> MathRoundMs(elapsed)]

\* a catch block that also returns an (empty) output
FailureResult_WithOutput(error, elapsed) ==
    [success |-> FALSE,
     output |-> <<>>,
     error |-> formatErrorOf[error],
     executionTime |-> MathRoundMs(elapsed)]

\* a catch block that returns no execution time
FailureResult_Untimed(error, elapsed) ==
    [success |-> FALSE,
     error |-> formatErrorOf[error]]

\* the return value of the catch block
FailureResult(error, elapsed) ==
    [success |-> FALSE,
     error |-> formatErrorOf[error],
     executionTime |-> MathRoundMs(elapsed)]

\* the return value of the empty-code check
BlankResult == [success |-> FALSE, error |-> NoCodeMessage]

\* executeCode without its finally block: the handle is left as it is
FinallyHandle_Kept(handle) == handle

\* finally { this.currentExecution = null }

FinallyHandle(handle) == 0

\* how a call that entered the catch block with `error` ends
CatchOutcome(path, code, wasReady, error, invoked, elapsed) ==
    [kind |-> IF formatErrorRaises(error) THEN "raised" ELSE "returned",
     path |-> path,
     readyAtCall |-> wasReady,
     code |-> code,
     invoked |-> invoked,
     controllerMade |-> TRUE,
     thrown |-> error,
     images |-> <<>>,
     value |-> IF formatErrorRaises(error)
               THEN [name |-> "TypeError"]
               ELSE FailureResult(error, elapsed),
     elapsed |-> elapsed]

\* the steps that are no executeCode settlement / no cancelExecution
Quiet ==
    /\ last' = NoSettle
    /\ cancelled' = NoCancel
    /\ destroyed' = NoDestroy

\* executeCode(code) while not ready: throw new Error(...)
ExecuteNotReady(code) ==
    /\ ExecEntry(ready, code) = "notReady"
    /\ UNCHANGED currentExecution
    /\ last' = [kind |-> "raised", path |-> "notReady",
                readyAtCall |-> ready, code |-> code, invoked |-> FALSE,
                controllerMade |-> currentExecution' # currentExecution,
                thrown |-> Nullish,
                images |-> <<>>,
                value |-> [name |-> "Error", message |-> NotReadyMessage],
                elapsed |-> 0]
    /\ cancelled' = NoCancel
    /\ destroyed' = NoDestroy
    /\ initOutcome' = "none"
    /\ UNCHANGED <<webR, shelter, ready, config, initPc, calls, aborted,
                   clock, sideVars>>

\* executeCode(code) with no code: the early return
ExecuteBlank(code) ==
    /\ ExecEntry(ready, code) = "blank"
    /\ UNCHANGED currentExecution
    /\ last' = [kind |-> "returned", path |-> "blank",
                readyAtCall |-> ready, code |-> code, invoked |-> FALSE,
                controllerMade |-> currentExecution' # currentExecution,
                thrown |-> Nullish,
                images |-> <<>>,
                value |-> BlankResult,
                elapsed |-> 0]
    /\ cancelled' = NoCancel
    /\ destroyed' = NoDestroy
    /\ initOutcome' = "none"
    /\ UNCHANGED <<webR, shelter, ready, config, initPc, calls, aborted,
                   clock, sideVars>>

\* executeCode(code) up to await this.shelter.captureR(code, options)
ExecuteDispatch(code) ==
    /\ ExecEntry(ready, code) = "run"
    /\ shelter # "null"
    /\ ActiveSlots # 1..MaxInFlight
    /\ LET s == SetMin((1..MaxInFlight) \ ActiveSlots)
       IN  /\ calls' = [calls EXCEPT ![s] =
                           [active |-> TRUE, code |-> code,
                            readyAtCall |-> ready, startTime |-> clock,
                            options |-> captureOptions(config, s)]]
           /\ currentExecution' = s
           /\ aborted' = aborted \ {s}
    /\ Quiet
    /\ initOutcome' = "none"
    /\ UNCHANGED <<webR, shelter, ready, config, initPc, clock, sideVars>>

\* executeCode(code) with this.shelter null: this.shelter.captureR throws a
\* TypeError inside the try block, and the call runs to its end at once
ExecuteDispatchThrows(code) ==
    /\ ExecEntry(ready, code) = "run"
    /\ shelter = "null"
    /\ last' = CatchOutcome("dispatchThrew", code, ready,
                            ErrorWith(ShelterNullMessage), FALSE, 0)
    /\ currentExecution' = FinallyHandle(currentExecution)
    /\ cancelled' = NoCancel
    /\ destroyed' = NoDestroy
    /\ initOutcome' = "none"
    /\ UNCHANGED <<webR, shelter, ready, config, initPc, calls, aborted,
                   clock, sideVars>>

\* the rest of executeCode once captureR has resolved with raw
AdapterResolve(s, raw) ==
    /\ calls[s].active
    /\ LET elapsed == clock - calls[s].startTime
       IN  last' =
             IF raw.defined
             THEN [kind |-> "returned", path |-> "resolved",
                   readyAtCall |-> calls[s].readyAtCall,
                   code |-> calls[s].code, invoked |-> TRUE,
                   controllerMade |-> TRUE, thrown |-> Nullish,
                   images |-> raw.images,
                   value |-> SuccessResult(raw, config, elapsed),
                   elapsed |-> elapsed]
             ELSE CatchOutcome("resultBroken", calls[s].code,
                               calls[s].readyAtCall,
                               ErrorWith(ResultUndefinedMessage), TRUE,
                               elapsed)
    /\ calls' = [calls EXCEPT ![s] = NoCall]
    /\ currentExecution' = FinallyHandle(currentExecution)
    /\ aborted' = aborted \ {s}
    /\ cancelled' = NoCancel
    /\ destroyed' = NoDestroy
    /\ initOutcome' = "none"
    /\ UNCHANGED <<webR, shelter, ready, config, initPc, clock, sideVars>>

\* the rest of executeCode once captureR has rejected with error
AdapterReject(s, error) ==
    /\ calls[s].active
    /\ last' = CatchOutcome("rejected", calls[s].code, calls[s].readyAtCall,
                            error, TRUE, clock - calls[s].startTime)
    /\ calls' = [calls EXCEPT ![s] = NoCall]
    /\ currentExecution' = FinallyHandle(currentExecution)
    /\ aborted' = aborted \ {s}
    /\ cancelled' = NoCancel
    /\ destroyed' = NoDestroy
    /\ initOutcome' = "none"
    /\ UNCHANGED <<webR, shelter, ready, config, initPc, clock, sideVars>>

\* cancelExecution's effect on <<currentExecution, aborted>>
CancelEffect(handle, abortedSet) ==
    IF handle # 0
    THEN <<0, abortedSet \cup {handle}>>
    ELSE <<handle, abortedSet>>

\* cancelExecution()
CancelExecution ==
    /\ currentExecution' = CancelEffect(currentExecution, aborted)[1]
    /\ aborted' = CancelEffect(currentExecution, aborted)[2]
    /\ cancelled' =
         [seen |-> TRUE,
          inFlight |-> ActiveSlots,
          before |-> ServiceState,
          reached |-> {s \in ActiveSlots :
                         AbortReaches(calls[s].options, currentExecution)}]
    /\ last' = NoSettle
    /\ destroyed' = NoDestroy
    /\ initOutcome' = "none"
    /\ UNCHANGED <<webR, shelter, ready, config, initPc, calls, clock,
                   sideVars>>

\* how the call this.shelter.destroy() can go: its promise resolves, its
\* promise rejects (.catch(console.error) logs it), or the call itself throws
Teardowns == {"resolves", "rejects", "throws"}

\* destroy(): cancelExecution(), then the teardown of the shelter if there
\* is one; a teardown that throws lands in the catch block, past the three
\* assignments
Destroy(teardown) ==
    /\ shelter = "null" => teardown = "resolves"
    /\ currentExecution' = CancelEffect(currentExecution, aborted)[1]
    /\ aborted' = CancelEffect(currentExecution, aborted)[2]
    /\ IF teardown = "throws"
       THEN UNCHANGED <<shelter, webR, ready>>
       ELSE /\ shelter' = "null"
            /\ webR' = "null"
            /\ ready' = FALSE
    /\ destroyed' = [seen |-> TRUE, hadShelter |-> shelter # "null",
                     teardown |-> teardown, raised |-> FALSE]
    /\ last' = NoSettle
    /\ cancelled' = NoCancel
    /\ initOutcome' = "none"
    /\ UNCHANGED <<config, initPc, calls, clock, sideVars>>

\* a catch block that raises without this.ready = false
InitializeFails_ReadyKept ==
    /\ UNCHANGED ready
    /\ initPc' = "idle"
    /\ initOutcome' = "raised"

\* the catch block of initialize
InitializeFails ==
    /\ ready' = FALSE
    /\ initPc' = "idle"
    /\ initOutcome' = "raised"

\* initialize() up to await this.webR.init()
InitializeStart ==
    /\ initPc = "idle"
    /\ webR' = "engine"
    /\ initPc' = "init"
    /\ initOutcome' = "none"
    /\ Quiet
    /\ UNCHANGED <<shelter, ready, config, currentExecution, calls, aborted,
                   clock, sideVars>>

\* webR.init() settled: on to await new this.webR.Shelter(), which throws
\* at once when this.webR is null by now
InitializeAfterInit(ok) ==
    /\ initPc = "init"
    /\ IF ok /\ webR # "null"
       THEN /\ initPc' = "shelter"
            /\ initOutcome' = "none"
            /\ UNCHANGED ready
       ELSE InitializeFails
    /\ Quiet
    /\ UNCHANGED <<webR, shelter, config, currentExecution, calls, aborted,
                   clock, sideVars>>

\* new Shelter() settled: this.shelter is set, and setupEnvironment awaits
\* its captureR
InitializeAfterShelter(ok) ==
    /\ initPc = "shelter"
    /\ IF ok
       THEN /\ shelter' = "shelter"
            /\ initPc' = "setup"
            /\ initOutcome' = "none"
            /\ UNCHANGED ready
       ELSE /\ InitializeFails
            /\ UNCHANGED shelter
    /\ Quiet
    /\ UNCHANGED <<webR, config, currentExecution, calls, aborted, clock,
                   sideVars>>

\* setupEnvironment is over (it swallows its own errors): this.ready = true
InitializeFinish ==
    /\ initPc = "setup"
    /\ ready' = TRUE
    /\ initPc' = "idle"
    /\ initOutcome' = "ok"
    /\ Quiet
    /\ UNCHANGED <<webR, shelter, config, currentExecution, calls, aborted,
                   clock, sideVars>>

\* time passes
Tick ==
    /\ clock < MaxClock
    /\ clock' = clock + 1
    /\ Quiet
    /\ initOutcome' = "none"
    /\ UNCHANGED <<webR, shelter, ready, config, currentExecution, initPc,
                   calls, aborted, sideVars>>

Init ==
    /\ ServiceInit(DefaultMaxOutputLength)
    /\ initPc = "idle"
    /\ initOutcome = "none"
    /\ calls = [s \in 1..MaxInFlight |-> NoCall]
    /\ aborted = {}
    /\ clock = 0
    /\ last = NoSettle
    /\ cancelled = NoCancel
    /\ destroyed = NoDestroy
    /\ tm = TmIdle
    /\ ui = UiIdle
    /\ fmt = FmtIdle
    /\ fe = FeIdle

Next ==
    \/ \E code \in Codes : ExecuteNotReady(code)
    \/ \E code \in Codes : ExecuteBlank(code)
    \/ \E code \in Codes : ExecuteDispatch(code)
    \/ \E code \in Codes : ExecuteDispatchThrows(code)
    \/ \E s \in 1..MaxInFlight, raw \in RawResults : AdapterResolve(s, raw)
    \/ \E s \in 1..MaxInFlight, error \in ThrownValues : AdapterReject(s, error)
    \/ CancelExecution
    \/ \E teardown \in Teardowns : Destroy(teardown)
    \/ InitializeStart
    \/ \E ok \in BOOLEAN : InitializeAfterInit(ok)
    \/ \E ok \in BOOLEAN : InitializeAfterShelter(ok)
    \/ InitializeFinish
    \/ Tick

Spec == Init /\ [][Next]_vars

(* ---------------------------------------------------------------------- *)
(* One executeCode call of a ready service, statement by statement: the    *)
(* clock can advance between any two statements, formatting included.      *)
(* tm.order lists the steps taken, tm.settledAt and the like the clock at  *)
(* each of them.                                                           *)
(* ---------------------------------------------------------------------- *)

\* performance.now() - startTime, taken at the start instead
Elapsed_FromOrigin(now, startTime) == now

\* performance.now() - startTime
Elapsed(now, startTime) == now - startTime

\* the step named step is taken
TmStep(step, next) ==
    /\ tm' = [next EXCEPT !.order = Append(tm.order, step)]
    /\ UNCHANGED <<serviceVars, fmt, fe, ui>>

\* startTime = performance.now(), the controller, the call of captureR
TmDispatch ==
    /\ tm.pc = "idle"
    /\ ready
    /\ TmStep("dispatch", [tm EXCEPT !.pc = "awaiting", !.startTime = clock])

\* captureR settles: the await resumes, or the catch block is entered
TmSettle(resolved) ==
    /\ tm.pc = "awaiting"
    /\ TmStep("settle",
              [tm EXCEPT !.pc = "settled",
                         !.path = IF resolved THEN "resolved" ELSE "rejected",
                         !.settledAt = clock])

\* const executionTime = performance.now() - startTime, of either block
TmStamp ==
    /\ tm.pc = "settled"
    /\ TmStep("stamp",
              [tm EXCEPT !.pc = "stamped", !.stampAt = clock,
                         !.elapsed = Elapsed(clock, tm.startTime)])

\* this.formatOutput(result.output) or this.formatError(error) is called
TmFormatBegin ==
    /\ tm.pc = "stamped"
    /\ TmStep("formatBegin",
              [tm EXCEPT !.pc = "formatting", !.formatBeganAt = clock])

\* formatOutput and truncateOutput, or formatError, have returned
TmFormatEnd ==
    /\ tm.pc = "formatting"
    /\ TmStep("formatEnd",
              [tm EXCEPT !.pc = "formatted", !.formatDoneAt = clock])

\* the try block throws while the output is formatted (result is undefined):
\* the catch block is entered, and takes its own timestamp next
TmFormatThrows ==
    /\ tm.pc = "formatting"
    /\ tm.path = "resolved"
    /\ TmStep("formatThrew", [tm EXCEPT !.pc = "settled", !.path = "caught"])

\* the result is built, Math.round(executionTime) in it, and returned
TmReturn ==
    /\ tm.pc = "formatted"
    /\ TmStep("return",
              [tm EXCEPT !.pc = "returned",
                         !.executionTime = MathRoundMs(tm.elapsed)])

\* time passes, between any two statements
TmTick ==
    /\ tm.pc # "returned"
    /\ clock < MaxClock
    /\ clock' = clock + 1
    /\ UNCHANGED <<webR, shelter, ready, config, currentExecution, initPc,
                   initOutcome, calls, aborted, last, cancelled, destroyed,
                   sideVars>>

\* a service that initialize() has made ready
TimingInit ==
    /\ webR = "engine"
    /\ shelter = "shelter"
    /\ ready = TRUE
    /\ config = [maxOutputLength |-> DefaultMaxOutputLength,
                 plotWidth |-> 800, plotHeight |-> 600]
    /\ currentExecution = 0
    /\ initPc = "idle"
    /\ initOutcome = "none"
    /\ calls = [s \in 1..MaxInFlight |-> NoCall]
    /\ aborted = {}
    /\ clock = 0
    /\ last = NoSettle
    /\ cancelled = NoCancel
    /\ destroyed = NoDestroy
    /\ fmt = FmtIdle
    /\ fe = FeIdle
    /\ tm = TmIdle
    /\ ui = UiIdle

TimingNext ==
    \/ TmDispatch
    \/ \E resolved \in BOOLEAN : TmSettle(resolved)
    \/ TmStamp
    \/ TmFormatBegin
    \/ TmFormatEnd
    \/ TmFormatThrows
    \/ TmReturn
    \/ TmTick

SpecTiming == TimingInit /\ [][TimingNext]_vars

(* ---------------------------------------------------------------------- *)
(* The UIController and its run triggers, with the application around it:  *)
(* the controller is attached to the service, the service is initialized,  *)
(* the user edits and triggers runs, the page is left. ui.runs holds the   *)
(* runCode() invocations suspended at await executeCode, ui.run what the   *)
(* runCode() entered or resumed in the last step did.                      *)
(* ---------------------------------------------------------------------- *)

\* what the user may have in the code input
CodeTexts == {<<>>, <<" ", "\n">>, <<" ", "x", "\n">>, <<"y">>}

\* the ways a run is triggered: the run button, Ctrl+Enter
Triggers == {"click", "shortcut"}

\* how the executeCode call of a run settles
CallOutcomes == {"success", "failure", "raised"}

\* the runCode() invocations suspended at await executeCode, or resuming
RunsInFlight == {r \in 1..MaxRuns : ui.runs[r].pc # "free"}

\* no continuation of a settled call is waiting to run: event handlers are
\* entered from the event loop only
UiQuiescent == \A r \in 1..MaxRuns : ui.runs[r].pc # "settled"

\* runCode's checks with the test of isRunning left out
RunEntry_NoRunningCheck(serviceAttached, isReady, isRunning, code) ==
    IF ~serviceAttached \/ ~isReady THEN "notReady"
    ELSE IF code = <<>> THEN "noCode"
    ELSE "run"

\* the checks runCode makes before it runs the trimmed code
RunEntry(serviceAttached, isReady, isRunning, code) ==
    IF ~serviceAttached \/ ~isReady THEN "notReady"
    ELSE IF isRunning THEN "alreadyRunning"
    ELSE IF code = <<>> THEN "noCode"
    ELSE "run"

\* setRunning(isRunning): the flag, and the run button with it
setRunning(u, isRunning) ==
    [u EXCEPT !.isRunning = isRunning, !.runBtnDisabled = isRunning]

\* the progress texts of initializeWebR, shown one a second
progressMessages ==
    <<"loadingWebAssembly", "buildingR", "preparingPackages", "almostDone">>

\* updateStatus(message, type)
updateStatus(u, message, type) ==
    [u EXCEPT !.status = [type |-> type, message |-> message]]

\* the catch blocks a failed service.initialize() runs through: initializeWebR
\* rethrows, initialize calls handleInitializationError
FailedStartUp(u) ==
    [updateStatus(u, "initializationError", "error") EXCEPT
        !.app = "failed", !.run = NoRun]

\* app.initialize() up to await this.webRService.initialize(): the
\* controller is attached (listeners, shortcuts), the status shows that the
\* engine is being initialized, and the progress timer is set
UiAttach ==
    /\ ui.app = "constructed"
    /\ ui' = [updateStatus(ui, "initializing", "info") EXCEPT
                 !.app = "starting", !.webRService = TRUE,
                 !.listening = TRUE, !.shortcuts = TRUE,
                 !.progressInterval = TRUE, !.messageIndex = 0,
                 !.run = NoRun]
    /\ UNCHANGED <<serviceVars, fmt, fe, tm>>

\* the callback of the progress timer, a second after the last
ProgressTick ==
    /\ UiQuiescent
    /\ ui.progressInterval
    /\ ui.messageIndex < Len(progressMessages)
    /\ ui' = [updateStatus(ui, progressMessages[ui.messageIndex + 1], "info")
                 EXCEPT !.messageIndex = ui.messageIndex + 1, !.run = NoRun]
    /\ UNCHANGED <<serviceVars, fmt, fe, tm>>

\* await this.webRService.initialize() settles in initializeWebR: on success
\* clearInterval, setReady() and the unload handler; on failure the catch
\* blocks, which show the error
AppWebRSettles(ok) ==
    /\ ui.app = "starting"
    /\ webR' = "engine"
    /\ IF ok
       THEN /\ shelter' = "shelter"
            /\ ready' = TRUE
            /\ ui' = [updateStatus(ui, "ready", "success") EXCEPT
                         !.app = "up", !.progressInterval = FALSE,
                         !.runBtnDisabled = FALSE, !.run = NoRun]
       ELSE /\ ready' = FALSE
            /\ UNCHANGED shelter
            /\ ui' = FailedStartUp(ui)
    /\ UNCHANGED <<config, currentExecution, initPc, initOutcome, calls,
                   aborted, clock, last, cancelled, destroyed, fmt, fe, tm>>

\* the user edits the code input
UiEdit(text) ==
    /\ UiQuiescent
    /\ text # ui.codeInput
    /\ ui' = [ui EXCEPT !.codeInput = text, !.run = NoRun]
    /\ UNCHANGED <<serviceVars, fmt, fe, tm>>

\* runCode(), from the click listener or the Ctrl+Enter shortcut, up to its
\* return or to await this.webRService.executeCode(code)
UiRunCode(trigger) ==
    /\ UiQuiescent
    /\ trigger = "click" => (ui.listening /\ ~ui.runBtnDisabled)
    /\ trigger = "shortcut" => ui.shortcuts
    /\ LET code == Trim(ui.codeInput)
           entry == RunEntry(ui.webRService, ready, ui.isRunning, code)
           entered == [kind |-> "entered", trigger |-> trigger,
                       wasRunning |-> ui.isRunning, entry |-> entry]
       IN  CASE entry = "notReady" ->
                  ui' = [ui EXCEPT !.run =
                            entered @@ [level |-> "error",
                                        message |-> NotReadyMessage,
                                        called |-> FALSE]]
             [] entry = "alreadyRunning" ->
                  ui' = [ui EXCEPT !.run =
                            entered @@ [level |-> "warning",
                                        message |-> AlreadyRunningMessage,
                                        called |-> FALSE]]
             [] entry = "noCode" ->
                  ui' = [ui EXCEPT !.run =
                            entered @@ [level |-> "warning",
                                        message |-> EnterCodeMessage,
                                        called |-> FALSE]]
             [] entry = "run" ->
                  /\ RunsInFlight # 1..MaxRuns
                  /\ LET r == SetMin((1..MaxRuns) \ RunsInFlight)
                     IN  ui' = [setRunning(ui, TRUE) EXCEPT
                                   !.runs[r] = [pc |-> "awaiting",
                                                code |-> code],
                                   !.run = entered @@ [level |-> "none",
                                                       message |-> <<>>,
                                                       called |-> TRUE]]
    /\ UNCHANGED <<serviceVars, fmt, fe, tm>>

\* the executeCode call of a run settles: a success result, a failure
\* result, or a rejection
UiCallSettles(r, outcome) ==
    /\ ui.runs[r].pc = "awaiting"
    /\ ui' = [ui EXCEPT !.runs[r] = [pc |-> "settled", outcome |-> outcome],
                        !.run = NoRun]
    /\ UNCHANGED <<serviceVars, fmt, fe, tm>>

\* runCode() resumes, with setRunning(false) at the end of the try block
\* and no finally: the catch block leaves the run flagged as running
UiResume_NoFinally(r, displayOk) ==
    /\ ui.runs[r].pc = "settled"
    /\ ui.runs[r].outcome = "raised" => displayOk
    /\ LET caught == ui.runs[r].outcome = "raised" \/ ~displayOk
       IN  ui' = [(IF caught THEN ui ELSE setRunning(ui, FALSE)) EXCEPT
                     !.runs[r] = [pc |-> "free"],
                     !.run = [kind |-> "finished",
                              outcome |-> ui.runs[r].outcome,
                              displayed |-> ~caught,
                              caught |-> caught]]
    /\ UNCHANGED <<serviceVars, fmt, fe, tm>>

\* runCode() resumes: displayOutput(result), or the catch block for a
\* rejection or a display that raised, and setRunning(false) in finally
UiResume(r, displayOk) ==
    /\ ui.runs[r].pc = "settled"
    /\ ui.runs[r].outcome = "raised" => displayOk
    /\ ui' = [setRunning(ui, FALSE) EXCEPT
                 !.runs[r] = [pc |-> "free"],
                 !.run = [kind |-> "finished",
                          outcome |-> ui.runs[r].outcome,
                          displayed |-> ui.runs[r].outcome # "raised"
                                           /\ displayOk,
                          caught |-> ui.runs[r].outcome = "raised"
                                        \/ ~displayOk]]
    /\ UNCHANGED <<serviceVars, fmt, fe, tm>>

\* beforeunload: a run in flight keeps the page; otherwise cleanup(), that
\* is service.destroy() and uiController.destroy()
BeforeUnload(teardown) ==
    /\ UiQuiescent
    /\ ui.app \in {"up", "cleaned"}
    /\ IF ui.isRunning
       THEN /\ teardown = "resolves"
            /\ ui' = [ui EXCEPT !.run = NoRun]
            /\ UNCHANGED <<webR, shelter, ready>>
       ELSE /\ shelter = "null" => teardown = "resolves"
            /\ IF teardown = "throws"
               THEN UNCHANGED <<webR, shelter, ready>>
               ELSE /\ shelter' = "null"
                    /\ webR' = "null"
                    /\ ready' = FALSE
            /\ ui' = [ui EXCEPT !.app = "cleaned", !.webRService = FALSE,
                                !.shortcuts = FALSE, !.run = NoRun]
    /\ UNCHANGED <<config, currentExecution, initPc, initOutcome, calls,
                   aborted, clock, last, cancelled, destroyed, fmt, fe, tm>>

\* the page as loaded: a new service, a new controller
UiInit ==
    /\ ServiceInit(DefaultMaxOutputLength)
    /\ initPc = "idle"
    /\ initOutcome = "none"
    /\ calls = [s \in 1..MaxInFlight |-> NoCall]
    /\ aborted = {}
    /\ clock = 0
    /\ last = NoSettle
    /\ cancelled = NoCancel
    /\ destroyed = NoDestroy
    /\ fmt = FmtIdle
    /\ fe = FeIdle
    /\ tm = TmIdle
    /\ \E buttonDisabled \in BOOLEAN : ui = UiNew(buttonDisabled)

UiNext ==
    \/ UiAttach
    \/ \E ok \in BOOLEAN : AppWebRSettles(ok)
    \/ ProgressTick
    \/ \E text \in CodeTexts : UiEdit(text)
    \/ \E trigger \in Triggers : UiRunCode(trigger)
    \/ \E r \in 1..MaxRuns, outcome \in CallOutcomes : UiCallSettles(r, outcome)
    \/ \E r \in 1..MaxRuns, displayOk \in BOOLEAN : UiResume(r, displayOk)
    \/ \E teardown \in Teardowns : BeforeUnload(teardown)

SpecUI == UiInit /\ [][UiNext]_vars

\* the continuation of a settled await is run by the event loop
SpecUIFair ==
    /\ UiInit
    /\ [][UiNext]_vars
    /\ \A r \in 1..MaxRuns :
           WF_vars(\E displayOk \in BOOLEAN : UiResume(r, displayOk))

\* ------------------------------------------------------------------ claims
\* an executeCode call settled in the step just taken, by returning a result
Returned == last.kind = "returned"

\* the code is missing, or holds nothing but white space
WhitespaceOnly(code) ==
    ~code.present \/ \A i \in 1..Len(code.text) : code.text[i] \in WhiteSpace

(* C1: whatever captureR rejects with, executeCode does not raise: it      *)
(* returns a result with success = false, an error text, and the measured  *)
(* duration.                                                               *)
C1_RejectionNeverRaises ==
    (last.kind # "none" /\ last.path = "rejected")
        => /\ last.kind = "returned"
           /\ last.value.success = FALSE
           /\ "error" \in DOMAIN last.value
           /\ Len(last.value.error) > 0
           /\ "executionTime" \in DOMAIN last.value
           /\ last.value.executionTime = MathRoundMs(last.elapsed)

(* C2: a call made while the service is not ready raises the not-ready     *)
(* error and does not invoke the adapter, also when the code is empty; no  *)
(* call suspended in the adapter was made while not ready.                 *)
C2_NotReadyRaises ==
    /\ (last.kind # "none" /\ ~last.readyAtCall)
          => /\ last.kind = "raised"
             /\ last.value = [name |-> "Error", message |-> NotReadyMessage]
             /\ ~last.invoked
    /\ \A s \in ActiveSlots : calls[s].readyAtCall

\* C2's case: not ready after having been ready (a call is still in flight),
\* and the refused call's code is empty as well
C2_Witness ==
    /\ last.kind = "raised"
    /\ last.path = "notReady"
    /\ WhitespaceOnly(last.code)
    /\ ActiveSlots # {}

(* C3: a call made while ready with empty or white-space-only code returns *)
(* success = false with the no-code error, invokes no adapter, creates no  *)
(* cancellation handle and carries no execution time; no such code is ever *)
(* suspended in the adapter.                                               *)
C3_BlankCodeEarlyExit ==
    /\ (last.kind # "none" /\ last.readyAtCall /\ WhitespaceOnly(last.code))
          => /\ last.kind = "returned"
             /\ last.value.success = FALSE
             /\ last.value.error = NoCodeMessage
             /\ "executionTime" \notin DOMAIN last.value
             /\ ~last.invoked
             /\ ~last.controllerMade
    /\ \A s \in ActiveSlots : ~WhitespaceOnly(calls[s].code)

\* C3's case: white space only (not the empty code), while ready
C3_Witness ==
    /\ Returned
    /\ last.readyAtCall
    /\ last.code.present
    /\ Len(last.code.text) > 0
    /\ WhitespaceOnly(last.code)

(* C4: in every returned result, success = true comes with an output and   *)
(* no error, success = false with an error and no output, and the images   *)
(* are non-empty only on success with an image captured by the adapter.    *)
C4_OutputXorError ==
    Returned =>
        LET v == last.value
        IN  /\ v.success => ("output" \in DOMAIN v /\ "error" \notin DOMAIN v)
            /\ ~v.success
                  => /\ "error" \in DOMAIN v
                     /\ Len(v.error) > 0
                     /\ "output" \notin DOMAIN v
            /\ ("images" \in DOMAIN v /\ Len(v.images) > 0)
                  => (v.success /\ Len(last.images) > 0)

\* C4's cases: a success with an image, and (after it) a caught failure
C4_Witness ==
    /\ Returned
    /\ last.path = "resolved"
    /\ last.value.success
    /\ Len(last.value.images) > 0

(* C5, as claimed: every returned result, on every path, carries an        *)
(* execution time that is an integer >= 0.                                 *)
C5_EveryResultTimed ==
    Returned
        => /\ "executionTime" \in DOMAIN last.value
           /\ last.value.executionTime \in Nat

(* C5, amended: every result of a call that got past the empty-code check  *)
(* (a success, or a failure caught in the try block) carries an execution  *)
(* time that is an integer >= 0; the empty-code result carries none.       *)
C5_TimedPastBlankCheck ==
    Returned
        => IF last.path = "blank"
           THEN "executionTime" \notin DOMAIN last.value
           ELSE /\ "executionTime" \in DOMAIN last.value
                /\ last.value.executionTime \in Nat

\* C5's case: a failure result, timed, after time has passed
C5_Witness ==
    /\ Returned
    /\ last.path = "rejected"
    /\ last.elapsed > 0
    /\ last.value.executionTime > 0

(* C6: when cancelExecution runs while a call is suspended in the adapter, *)
(* the abort reaches an adapter call that was dispatched.                  *)
C6_AbortReachesAdapter ==
    (cancelled.seen /\ cancelled.inFlight # {}) => cancelled.reached # {}

(* C7: cancelExecution with no call in flight changes nothing of the       *)
(* service: not the ready flag, the shelter, the engine, the configuration,*)
(* the cancellation handle, nor any controller.                            *)
C7_IdleCancelIsNoOp ==
    (cancelled.seen /\ cancelled.inFlight = {})
        => ServiceState = cancelled.before

\* C7's case: a cancel with nothing in flight, on a service that is ready
C7_Witness ==
    /\ cancelled.seen
    /\ cancelled.inFlight = {}
    /\ ready

(* C8: an output no longer than the maximum is returned as it is; a longer *)
(* one is its first max units followed by the suffix, max + Len(suffix)    *)
(* units in all.                                                           *)
C8_TruncateAtMax ==
    fmt.pc = "done" =>
        LET t == fmt.text
            r == fmt.result
            m == config.maxOutputLength
        IN  /\ Len(t) <= m => r = t
            /\ Len(t) > m
                  => /\ Len(r) = m + Len(OmissionSuffix)
                     /\ \A i \in 1..m : r[i] = t[i]
                     /\ \A i \in 1..Len(OmissionSuffix) :
                            r[m + i] = OmissionSuffix[i]

\* C8's case: an output one unit over a maximum that is not zero
C8_Witness ==
    /\ fmt.pc = "done"
    /\ config.maxOutputLength > 0
    /\ Len(fmt.text) = config.maxOutputLength + 1

\* the items C9 speaks of: plain text, and stdout / stderr / warning /
\* message items with a text (which may be empty)
LabelledItem(item) ==
    \/ item.kind = "string"
    \/ /\ item.kind = "typed"
       /\ item.hasData
       /\ item.type \in {TypeStdout, TypeStderr, TypeWarning, TypeMessage}

\* the line C9 gives such an item
LabelledLine(item) ==
    IF item.kind = "string" \/ item.type = TypeStdout THEN item.data
    ELSE IF item.type = TypeStderr THEN StderrLabel \o item.data
    ELSE IF item.type = TypeWarning THEN WarningLabel \o item.data
    ELSE MessageLabel \o item.data

(* C9: formatOutput of a sequence of plain, stdout, stderr, warning and    *)
(* message items is the newline-join, in order, of one line per item: the  *)
(* text as it is for plain and stdout items, the text after its label for  *)
(* the others, whatever the text (the empty text too); the empty sequence  *)
(* gives the empty text.                                                   *)
C9_OneLinePerItem ==
    (/\ fmt.pc \in {"formatted", "done"}
     /\ fmt.output.present
     /\ \A i \in 1..Len(fmt.output.items) : LabelledItem(fmt.output.items[i]))
        => fmt.text =
             Join([i \in 1..Len(fmt.output.items)
                     |-> LabelledLine(fmt.output.items[i])], <<"\n">>)

\* the text msg[i..j] is, as a whole and ignoring case, an instance of p
SpanMatches(p, msg, i, j) ==
    /\ 1 <= i
    /\ j <= Len(msg)
    /\ j - i + 1 >= Len(p.pre) + Len(p.post)
    /\ p.wild \/ j - i + 1 = Len(p.pre)
    /\ \A k \in 1..Len(p.pre) : Fold(msg[i + k - 1]) = Fold(p.pre[k])
    /\ \A k \in 1..Len(p.post) :
           Fold(msg[j - Len(p.post) + k]) = Fold(p.post[k])
    /\ \A k \in (i + Len(p.pre))..(j - Len(p.post)) :
           msg[k] \notin LineTerminators

\* the pattern p has an instance somewhere in msg
Occurs(p, msg) ==
    \E i \in 1..Len(msg), j \in 1..Len(msg) : SpanMatches(p, msg, i, j)

\* the table entries whose pattern has an instance in msg
Matching(msg) ==
    {k \in 1..Len(errorTranslations) : Occurs(errorTranslations[k], msg)}

(* C10, as claimed: only the first table entry that matches the raw        *)
(* message is ever applied.                                                *)
C10_OnlyFirstMatchApplied ==
    fe.pc \in {"loop", "returned"}
        => \A k \in fe.applied : k = SetMin(Matching(fe.error.message))

(* C10, amended: every table entry is tried in table order, and each one   *)
(* whose pattern matches the message as the earlier entries left it is     *)
(* applied: one substring matched by the pattern is replaced by the        *)
(* localized phrase and the rest of the message is preserved; an entry     *)
(* whose pattern does not match leaves the message as it is.               *)
C10_EachMatchingEntryApplied ==
    (fe.pc = "loop" /\ fe.idx > 1) =>
        LET k == fe.idx - 1
            p == errorTranslations[k]
            b == fe.before
        IN  IF Occurs(p, b)
            THEN /\ k \in fe.applied
                 /\ \E i \in 1..Len(b), j \in 1..Len(b) :
                       /\ SpanMatches(p, b, i, j)
                       /\ fe.message = SubSeq(b, 1, i - 1) \o p.translation
                                          \o SubSeq(b, j + 1, Len(b))
            ELSE /\ k \notin fe.applied
                 /\ fe.message = b

\* C10's case: a message on which two table entries were applied
C10_Witness ==
    /\ fe.pc = "returned"
    /\ Cardinality(fe.applied) >= 2

\* the positions of msg at which an instance of the pattern p starts
StartsOf(p, msg) ==
    {i \in 1..Len(msg) : \E j \in 1..Len(msg) : SpanMatches(p, msg, i, j)}

\* the text part is a contiguous piece of the text msg
Contains(msg, part) ==
    \E i \in 0..(Len(msg) - Len(part)) :
        SubSeq(msg, i + 1, i + Len(part)) = part

C12_UnmatchedUnchanged ==
    (/\ fe.pc = "returned"
     /\ fe.error.hasMessage
     /\ fe.error.message # <<>>
     /\ Matching(fe.error.message) = {})
        => fe.result = fe.error.message

\* C12's case: a non-empty message outside every pattern has been returned
C12_Witness ==
    /\ fe.pc = "returned"
    /\ fe.error.hasMessage
    /\ Len(fe.error.message) > 1
    /\ Matching(fe.error.message) = {}
    /\ fe.result = fe.error.message

(* C13: when the failure carries no message at all, the error text of the  *)
(* failing result is the fixed generic fallback, and the error text is the  *)
(* generic fallback in that case only.                                      *)
C13_FallbackIffNoMessage ==
    fe.pc \in {"raised", "returned"} =>
        LET noMessage == ~Truthy(fe.error.hasMessage, fe.error.message)
        IN  /\ noMessage =>
                   (fe.pc = "returned" /\ fe.result = FallbackErrorMessage)
            /\ (fe.pc = "returned" /\ fe.result = FallbackErrorMessage)
                   => noMessage

(* C14: destroy never raises, and when destroy has returned the service is *)
(* not ready (isReady() is false and an executeCode that follows raises the *)
(* not-ready error), also when the teardown of the shelter fails.           *)
C14_DestroyedNotReady ==
    destroyed.seen =>
        /\ ~destroyed.raised
        /\ ~ready
        /\ \A code \in Codes : ExecEntry(ready, code) = "notReady"

(* C15: when the start-up of the engine or the creation of the shelter     *)
(* fails, initialize raises its initialization error and leaves the service *)
(* not ready; and the service turns ready in no step but the one in which   *)
(* an initialize call completes without raising.                            *)
C15_ReadyOnlyByInitialize ==
    [][/\ initOutcome' = "raised" => ~ready'
       /\ (~ready /\ ready') => initOutcome' = "ok"]_vars

\* C15's case: a service initialized before has failed to initialize again
C15_Witness ==
    /\ initOutcome = "raised"
    /\ shelter = "shelter"
    /\ ~ready

\* the place of the last step named step in tm.order, 0 if there is none
LastStep(step) ==
    SetMax({0} \cup {i \in 1..Len(tm.order) : tm.order[i] = step})

(* C16, as claimed: in every executeCode call that reaches the adapter, the *)
(* end-of-duration timestamp is taken after result formatting has finished, *)
(* so the reported duration runs from the start timestamp through           *)
(* formatting.                                                              *)
C16_StampAfterFormatting ==
    tm.pc = "returned" =>
        /\ LastStep("stamp") > LastStep("formatEnd")
        /\ tm.elapsed = tm.formatDoneAt - tm.startTime

(* C16, amended: in every executeCode call that reaches the adapter, the    *)
(* end-of-duration timestamp is taken once the adapter call has settled     *)
(* and before the formatting of the returned text begins: the reported      *)
(* duration is the time from the start timestamp to that point, rounded to  *)
(* the nearest millisecond, and leaves the formatting out.                  *)
C16_StampBeforeFormatting ==
    tm.pc = "returned" =>
        /\ LastStep("settle") < LastStep("stamp")
        /\ LastStep("stamp") < LastStep("formatBegin")
        /\ LastStep("formatBegin") < LastStep("formatEnd")
        /\ LET ticks == tm.stampAt - tm.startTime
               ms == tm.executionTime
           IN  /\ tm.settledAt <= tm.stampAt
               /\ tm.stampAt <= tm.formatBeganAt
               /\ 2 * ms * TicksPerMs - TicksPerMs <= 2 * ticks
               /\ 2 * ticks < 2 * ms * TicksPerMs + TicksPerMs

\* C16's case: a call has returned whose formatting took time, and whose
\* reported duration is shorter than the time up to the end of formatting
C16_Witness ==
    /\ tm.pc = "returned"
    /\ tm.formatDoneAt > tm.formatBeganAt
    /\ tm.startTime > 0
    /\ tm.elapsed < tm.formatDoneAt - tm.startTime

(* C17: under any interleaving of executeCode calls, overlapping ones      *)
(* included: while a call is suspended in the adapter and cancelExecution   *)
(* has aborted the controller of no suspended call, the service holds a     *)
(* cancellation handle; and when no call is in flight the handle is null.   *)
C17_HandleHeldWhileInFlight ==
    /\ (ActiveSlots # {} /\ ActiveSlots \cap aborted = {})
           => currentExecution # 0
    /\ ActiveSlots = {} => currentExecution = 0

(* C18: under any sequence of run triggers, at most one executeCode call    *)
(* started by the UI is in flight at a time: a runCode entered while        *)
(* isRunning is true emits the already-running warning and returns without  *)
(* calling the service and without changing isRunning.                      *)
C18_OneUiCallInFlight ==
    /\ Cardinality(RunsInFlight) <= 1
    /\ (ui.run.kind = "entered" /\ ui.run.wasRunning) =>
           /\ ui.run.level = "warning"
           /\ ui.run.message = AlreadyRunningMessage
           /\ ~ui.run.called
           /\ ui.isRunning
           /\ Cardinality(RunsInFlight) = 1

\* C18's case: Ctrl+Enter has been pressed during a run, and was turned down
C18_Witness ==
    /\ ui.run.kind = "entered"
    /\ ui.run.trigger = "shortcut"
    /\ ui.run.wasRunning
    /\ ui.run.level = "warning"
    /\ RunsInFlight # {}

(* C19: every runCode that has set isRunning to true sets it back to false *)
(* and enables the run button again once its service call has settled,      *)
(* whether the call returned a success result, returned a failure result or *)
(* raised, and also when displaying the result raises; and isRunning is     *)
(* true only while a call started by the UI is in flight.                   *)
C19_RunningEndsWhenCallSettles ==
    /\ [](ui.isRunning => RunsInFlight # {})
    /\ \A r \in 1..MaxRuns :
           (ui.runs[r].pc = "settled")
               ~> (/\ ui.run.kind = "finished"
                   /\ ui.runs[r].pc = "free"
                   /\ ~ui.isRunning
                   /\ ~ui.runBtnDisabled)

\* C19's case: a run whose display raised is over, the button enabled again
C19_Witness ==
    /\ ui.run.kind = "finished"
    /\ ui.run.outcome = "success"
    /\ ui.run.caught
    /\ ~ui.isRunning
    /\ ~ui.runBtnDisabled

(* C20: in every reachable state, under any interleaving of initialize,    *)
(* destroy and executeCode, a ready service has a shelter: ready = true     *)
(* implies that the shelter is not null, so that no executeCode of a ready  *)
(* service dereferences a missing shelter.                                  *)
C20_ReadyHasShelter ==
    /\ ready => shelter # "null"
    /\ (last.kind # "none" /\ last.readyAtCall) => last.path # "dispatchThrew"

(* C21: when the initialization of the service fails during the start-up  *)
(* of the application, the error status, once displayed, is never           *)
(* overwritten by a progress message: the progress timer is stopped on      *)
(* failure as on success; and the UI is set ready only when the service     *)
(* has been initialized.                                                    *)
C21_ErrorStatusStays ==
    /\ ui.app = "failed" =>
           (ui.status.type = "error" /\ ~ui.progressInterval)
    /\ ui.app \in {"up", "cleaned"} => ~ui.progressInterval
    /\ ui.status.message = "ready" => ui.app \in {"up", "cleaned"}

====
